---- MODULE Spec2Model ----
(***************************************************************************)
(* ChallengeRepository (src/repositories/challengeRepository.js): the      *)
(* data-access layer over the challenge table.  The table, the ORM calls   *)
(* the layer makes on it, and the layer's seven operations.                *)
(*                                                                         *)
(* Spec      every operation runs from call to return as one step.         *)
(* SpecConc  updateChallenge and deleteChallenge are split at their two    *)
(*           awaits (findByPk, then update/destroy), so that calls of      *)
(*           different callers interleave.                                 *)
(***************************************************************************)
EXTENDS Integers, Sequences, FiniteSets, TLC

VARIABLES
    store,      \* the rows of the challenge table
    nextId,     \* the table's auto-increment counter
    now,        \* the provider's clock (created_at of the next row)
    calls,      \* per caller: the call suspended at its second await, if any
    deleted,    \* history: the ids a deleteChallenge call reported deleted
    last        \* history: the call that returned last, with what it returned

vars == <<store, nextId, now, calls, deleted, last>>

----------------------------------------------------------------------------
(* Bounds *)

\* Rows ever created (ids 1..MaxId).
MaxId == 2

\* Concurrent callers of SpecConc.
Procs == {"p", "q"}

----------------------------------------------------------------------------
(* JavaScript values.  A value is a tuple of strings: its type tag and its *)
(* payload; a string's payload is its characters.                          *)

Undefined == <<"undefined">>
Null      == <<"null">>
JsTrue    == <<"boolean", "true">>
JsFalse   == <<"boolean", "false">>
Num(d)    == <<"number", d>>
Str(s)    == <<"string">> \o s

\* typeof v
TypeOf(v) == IF v[1] = "null" THEN "object" ELSE v[1]

\* The characters of a string value.
Chars(v) == Tail(v)

\* ToBoolean(v): undefined, null, false, 0, NaN and "" are falsy.
Truthy(v) ==
    CASE v[1] = "undefined" -> FALSE
      [] v[1] = "null"      -> FALSE
      [] v[1] = "boolean"   -> v[2] = "true"
      [] v[1] = "number"    -> v[2] \notin {"0", "NaN"}
      [] v[1] = "string"    -> Len(v) > 1
      [] OTHER              -> TRUE

IsBlank(c) == c = " "

\* String.prototype.trim on a sequence of characters.
RECURSIVE TrimLeft(_)
TrimLeft(s) ==
    IF s # <<>> /\ IsBlank(Head(s)) THEN TrimLeft(Tail(s)) ELSE s

RECURSIVE TrimRight(_)
TrimRight(s) ==
    IF s # <<>> /\ IsBlank(s[Len(s)])
    THEN TrimRight(SubSeq(s, 1, Len(s) - 1))
    ELSE s

Trim(s) == TrimRight(TrimLeft(s))

\* SQL LIKE: in the pattern, % matches any run of characters and _ any one
\* character; every other character matches itself.
RECURSIVE Like(_, _)
Like(s, p) ==
    IF p = <<>> THEN s = <<>>
    ELSE IF Head(p) = "%"
         THEN Like(s, Tail(p)) \/ (s # <<>> /\ Like(Tail(s), p))
    ELSE IF s = <<>> THEN FALSE
    ELSE (Head(p) = "_" \/ Head(p) = Head(s)) /\ Like(Tail(s), Tail(p))

----------------------------------------------------------------------------
(* Errors.  An Error object is its message, a sequence of text pieces, and *)
(* its origin: the object the provider threw, or one this file made with   *)
(* new Error.  The messages are the file's, written without diacritics.    *)

MsgNotFoundGet    == <<"Khong tim thay thu thach voi ID da cho.">>
MsgNotFoundUpdate == <<"Khong tim thay thu thach de cap nhat.">>
MsgNotFoundDelete == <<"Khong tim thay thu thach de xoa.">>
MsgEmptyStatus    == <<"Trang thai khong duoc de trong.">>
MsgDeleted        == <<"Thu thach da duoc xoa thanh cong.">>

PrefixCreate       == "Loi khi tao thu thach: "
PrefixList         == "Loi khi lay danh sach thu thach: "
PrefixGet          == "Loi khi lay thu thach theo ID: "
PrefixUpdate       == "Loi khi cap nhat thu thach: "
PrefixDelete       == "Loi khi xoa thu thach: "
PrefixSearch       == "Loi khi tim kiem thu thach: "
PrefixListByStatus == "Loi khi lay thu thach theo trang thai: "

\* new Error(message)
NewError(message) == [origin |-> "layer", message |-> message]

\* new Error(`${prefix}${error.message}`)
Wrap(prefix, error) == NewError(<<prefix>> \o error.message)

\* What a call hands back: a value, or a thrown error.
Return(v) == [ok |-> TRUE, val |-> v, err |-> NewError(<<>>)]
Throw(e)  == [ok |-> FALSE, val |-> <<>>, err |-> e]

----------------------------------------------------------------------------
(* The challenge table and the store provider (models/challenge and the    *)
(* ORM).  A row is a record over Fields; id and created_at are numbers,    *)
(* every other field a JavaScript value.                                   *)

Fields == {"id", "created_at", "status", "is_weekly",
           "community_member_id", "title", "description"}

\* The primary key, which the provider assigns and never rewrites.
PrimaryKey == "id"

\* What a provider call can throw: connection trouble, and errors whose
\* text happens to be one of this file's own messages.
ProviderMessages == {<<"connect ECONNREFUSED">>, MsgNotFoundGet}

ProviderErrors == {[origin |-> "provider", message |-> m] : m \in ProviderMessages}

\* A provider call either answers (NoFault) or throws an error with one of
\* ProviderMessages.
NoFault == <<>>

Faults == {NoFault} \cup ProviderMessages

Thrown(fault) == [origin |-> "provider", message |-> fault]

RowWithId(st, id) == {r \in st : r.id = id}

\* instance.toJSON(): the plain object of the row's values.
toJSON(instance) == [f \in Fields |-> instance[f]]

\* The values an instance holds after set(data): every key of data but the
\* primary key is taken over.
SetValues(instance, data) ==
    [f \in Fields |->
        IF f \in DOMAIN data /\ f # PrimaryKey THEN data[f] ELSE instance[f]]

\* Challenge.create(data): a new row with the next id and the clock's time.
ProviderCreate(st, id, time, data, fault) ==
    IF fault # NoFault
    THEN [resp |-> Throw(Thrown(fault)), store |-> st]
    ELSE LET row == [f \in Fields |->
                        IF f = "id" THEN id
                        ELSE IF f = "created_at" THEN time
                        ELSE data[f]]
         IN  [resp |-> Return(row), store |-> st \cup {row}]

\* Challenge.findByPk(id): the row as a one-element sequence, or null (<<>>).
ProviderFindByPk(st, id, fault) ==
    IF fault # NoFault
    THEN Throw(Thrown(fault))
    ELSE IF RowWithId(st, id) = {}
         THEN Return(<<>>)
         ELSE Return(<<CHOOSE r \in RowWithId(st, id) : TRUE>>)

\* instance.update(data): UPDATE ... WHERE id = instance.id, which changes
\* the row if it is still there and affects no row otherwise; either way the
\* call answers with the instance's new values.
ProviderUpdate(st, instance, data, fault) ==
    IF fault # NoFault
    THEN [resp |-> Throw(Thrown(fault)), store |-> st, hit |-> FALSE]
    ELSE [resp  |-> Return(SetValues(instance, data)),
          store |-> {IF r.id = instance.id THEN SetValues(r, data) ELSE r : r \in st},
          hit   |-> RowWithId(st, instance.id) # {}]

\* instance.destroy(): DELETE ... WHERE id = instance.id.
ProviderDestroy(st, instance, fault) ==
    IF fault # NoFault
    THEN [resp |-> Throw(Thrown(fault)), store |-> st, hit |-> FALSE]
    ELSE [resp  |-> Return(<<>>),
          store |-> st \ RowWithId(st, instance.id),
          hit   |-> RowWithId(st, instance.id) # {}]

\* A where clause: exact matches ([kind |-> "eq", eq |-> field :> value]),
\* or an OR of LIKE patterns over some fields.
WhereEq(eq)               == [kind |-> "eq", eq |-> eq, fields |-> {}, pattern |-> <<>>]
WhereOrLike(fields, pat)  == [kind |-> "orLike", eq |-> <<>>, fields |-> fields, pattern |-> pat]

Matches(r, where) ==
    IF where.kind = "eq"
    THEN \A f \in DOMAIN where.eq : r[f] = where.eq[f]
    ELSE \E f \in where.fields :
            /\ r[f][1] = "string"
            /\ Like(Chars(r[f]), where.pattern)

SeqToSet(s) == {s[i] : i \in DOMAIN s}

\* order: [['created_at', 'DESC']]
IsNewestFirst(s) ==
    \A i, j \in DOMAIN s : i < j => s[i].created_at >= s[j].created_at

\* The orders in which the rows of a set may come back: every arrangement
\* that is newest first (rows of equal created_at in either order).
NewestFirst(rows) ==
    {s \in [1..Cardinality(rows) -> rows] :
        SeqToSet(s) = rows /\ IsNewestFirst(s)}

\* Challenge.findAll({where, order}): the answers the provider may give.
ProviderFindAll(st, where) ==
    {Throw(e) : e \in ProviderErrors}
    \cup {Return(s) : s \in NewestFirst({r \in st : Matches(r, where)})}

----------------------------------------------------------------------------
(* The repository's operations, each as the outcome it computes from the   *)
(* provider's answers.                                                     *)

\* createChallenge, lines 11-19.
createChallenge(created) ==
    IF created.ok
    THEN Return(toJSON(created.val))
    ELSE Throw(Wrap(PrefixCreate, created.err))

\* getAllWhere with is_weekly tested like the other two keys, by truthiness.
getAllWhereTruthy(filters) ==
    LET keys == {k \in {"status", "community_member_id", "is_weekly"} :
                    Truthy(filters[k])}
    IN  [k \in keys |-> filters[k]]

\* getAllChallenges, lines 29-40: the where clause built from the filters.
\* A key the caller left out reads as undefined.
getAllWhere(filters) ==
    LET keys == {k \in {"status", "community_member_id"} : Truthy(filters[k])}
                \cup {k \in {"is_weekly"} : filters[k] # Undefined}
    IN  [k \in keys |-> filters[k]]

\* getAllChallenges, lines 43-53.
getAllChallenges(found) ==
    IF found.ok
    THEN Return([i \in DOMAIN found.val |-> toJSON(found.val[i])])
    ELSE Throw(Wrap(PrefixList, found.err))

\* getChallengeById, lines 73-79: the catch block.
getByIdCatch(error) ==
    IF error.message = MsgNotFoundGet
    THEN Throw(error)
    ELSE Throw(Wrap(PrefixGet, error))

\* getChallengeById, lines 62-80.
getChallengeById(found) ==
    IF ~found.ok THEN getByIdCatch(found.err)
    ELSE IF found.val = <<>> THEN getByIdCatch(NewError(MsgNotFoundGet))
    ELSE Return(toJSON(found.val[1]))

\* updateCatch without the test that lets NotFound through.
updateCatchWrapsAll(error) == Throw(Wrap(PrefixUpdate, error))

\* updateChallenge, lines 101-106: the catch block.
updateCatch(error) ==
    IF error.message = MsgNotFoundUpdate
    THEN Throw(error)
    ELSE Throw(Wrap(PrefixUpdate, error))

\* updateChallenge, lines 91-94: up to the existence check.  Either the
\* call ends here with out, or it goes on to write with the instance found.
updateFind(found) ==
    IF ~found.ok
    THEN [done |-> TRUE, out |-> updateCatch(found.err), instance |-> <<>>]
    ELSE IF found.val = <<>>
    THEN [done |-> TRUE, out |-> updateCatch(NewError(MsgNotFoundUpdate)),
          instance |-> <<>>]
    ELSE [done |-> FALSE, out |-> Return(<<>>), instance |-> found.val]

\* updateWrite that saves the instance without the caller's data.
updateWriteNothing(st, instance, updateData, fault) ==
    ProviderUpdate(st, instance, <<>>, fault)

\* updateChallenge, line 99: the write, with the caller's data as given.
updateWrite(st, instance, updateData, fault) ==
    ProviderUpdate(st, instance, updateData, fault)

\* updateChallenge, lines 99-106: after the write.
updateReturn(written) ==
    IF written.ok THEN Return(toJSON(written.val)) ELSE updateCatch(written.err)

\* deleteChallenge, lines 124-129: the catch block.
deleteCatch(error) ==
    IF error.message = MsgNotFoundDelete
    THEN Throw(error)
    ELSE Throw(Wrap(PrefixDelete, error))

\* deleteChallenge, lines 117-120: up to the existence check.
deleteFind(found) ==
    IF ~found.ok
    THEN [done |-> TRUE, out |-> deleteCatch(found.err), instance |-> <<>>]
    ELSE IF found.val = <<>>
    THEN [done |-> TRUE, out |-> deleteCatch(NewError(MsgNotFoundDelete)),
          instance |-> <<>>]
    ELSE [done |-> FALSE, out |-> Return(<<>>), instance |-> found.val]

\* deleteWrite that reports the destroy without removing the row.
deleteWriteKeeps(st, instance, fault) ==
    [ProviderDestroy(st, instance, fault) EXCEPT !.store = st]

\* deleteChallenge, line 122: the destroy.
deleteWrite(st, instance, fault) == ProviderDestroy(st, instance, fault)

\* deleteChallenge, lines 122-129: after the destroy.
deleteReturn(id, destroyed) ==
    IF destroyed.ok
    THEN Return([id |-> id, deleted |-> TRUE, message |-> MsgDeleted])
    ELSE deleteCatch(destroyed.err)

\* searchSkips without the test of the trimmed term.
searchSkipsNoTrim(searchTerm) ==
    \/ ~Truthy(searchTerm)
    \/ TypeOf(searchTerm) # "string"

\* searchChallenges, line 140: the terms answered with [] straight away.
searchSkips(searchTerm) ==
    \/ ~Truthy(searchTerm)
    \/ TypeOf(searchTerm) # "string"
    \/ Trim(Chars(searchTerm)) = <<>>

\* searchChallenges, lines 144-150: `%${searchTerm}%` on title or description.
searchWhere(searchTerm) ==
    WhereOrLike({"title", "description"}, <<"%">> \o Chars(searchTerm) \o <<"%">>)

\* searchChallenges, lines 143-156.
searchChallenges(found) ==
    IF found.ok
    THEN Return([i \in DOMAIN found.val |-> toJSON(found.val[i])])
    ELSE Throw(Wrap(PrefixSearch, found.err))

\* getChallengesByStatus, lines 178-180: the catch block.
byStatusCatch(error) == Throw(Wrap(PrefixListByStatus, error))

\* getChallengesByStatus, lines 170-172: the statuses refused.
byStatusRefuses(status) == ~Truthy(status)

\* getChallengesByStatus, lines 173-180.
getChallengesByStatus(found) ==
    IF found.ok
    THEN Return([i \in DOMAIN found.val |-> toJSON(found.val[i])])
    ELSE byStatusCatch(found.err)

----------------------------------------------------------------------------
(* The callers' inputs. *)

Pending == Str(<<"p", "e", "n", "d", "i", "n", "g">>)
Done    == Str(<<"d", "o", "n", "e">>)
Empty   == Str(<<>>)

Ids == 1..MaxId

\* challengeData of createChallenge: every field but id and created_at.
CreateInputs ==
    {[status |-> Pending, is_weekly |-> JsTrue, community_member_id |-> Num("1"),
      title |-> Str(<<"a", "b">>), description |-> Null],
     [status |-> Empty, is_weekly |-> Null, community_member_id |-> Num("0"),
      title |-> Str(<<"5", "%">>), description |-> Str(<<"a">>)]}

\* updateData of updateChallenge: any keys, id and created_at among them.
UpdateInputs ==
    {[status |-> Done, is_weekly |-> JsFalse],
     [k \in {} |-> Null],
     [id |-> 2, created_at |-> 0, status |-> Done, is_weekly |-> JsFalse]}

\* filters of getAllChallenges; reward_type is a key the code does not read.
FilterKeys == {"status", "community_member_id", "is_weekly", "reward_type"}

Filters(status, member, weekly, other) ==
    [k \in FilterKeys |->
        CASE k = "status"              -> status
          [] k = "community_member_id" -> member
          [] k = "is_weekly"           -> weekly
          [] OTHER                     -> other]

FilterInputs ==
    {Filters(Undefined, Undefined, Undefined, Undefined),
     Filters(Empty, Undefined, Undefined, Undefined),
     Filters(Undefined, Num("0"), Undefined, Undefined),
     Filters(Undefined, Undefined, JsFalse, Undefined),
     Filters(Undefined, Undefined, Null, Undefined),
     Filters(Done, Num("1"), JsFalse, Undefined),
     Filters(Pending, Undefined, Undefined, Str(<<"x">>))}

\* searchTerm of searchChallenges.
SearchInputs ==
    {Undefined, Null, Num("5"), Empty, Str(<<" ", " ">>),
     Str(<<"b">>), Str(<<"%">>)}

\* status of getChallengesByStatus.
StatusInputs == {Undefined, Empty, Done}

----------------------------------------------------------------------------
(* The state after construction: an empty table, no call in flight. *)

Idle == [pc |-> "idle", id |-> 0, data |-> <<>>, instance |-> <<>>]

\* The history of one returned call.
Called(op, id, arg, out, pre, queries, thrown, hit) ==
    [op |-> op, id |-> id, arg |-> arg, out |-> out, pre |-> pre,
     queries |-> queries, thrown |-> thrown, hit |-> hit]

\* The errors a provider answer threw, for the history.
ThrownBy(resp) == IF resp.ok THEN <<>> ELSE <<resp.err>>

Init ==
    /\ store = {}
    /\ nextId = 1
    /\ now = 1
    /\ calls = [p \in Procs |-> Idle]
    /\ deleted = {}
    /\ last = Called("none", 0, <<>>, Return(<<>>), {}, 0, <<>>, FALSE)

----------------------------------------------------------------------------
(* Spec: one action per operation, from call to return. *)

CreateChallenge ==
    \E challengeData \in CreateInputs, fault \in Faults :
        LET p == ProviderCreate(store, nextId, now, challengeData, fault)
        IN  /\ nextId <= MaxId
            /\ store' = p.store
            /\ nextId' = IF p.resp.ok THEN nextId + 1 ELSE nextId
            /\ now' = IF p.resp.ok THEN now + 1 ELSE now
            /\ last' = Called("create", 0, challengeData, createChallenge(p.resp),
                              store, 1, ThrownBy(p.resp), FALSE)
            /\ UNCHANGED <<calls, deleted>>

GetAllChallenges ==
    \E filters \in FilterInputs :
        \E found \in ProviderFindAll(store, WhereEq(getAllWhere(filters))) :
            /\ last' = Called("getAll", 0, filters, getAllChallenges(found),
                              store, 1, ThrownBy(found), FALSE)
            /\ UNCHANGED <<store, nextId, now, calls, deleted>>

GetChallengeById ==
    \E id \in Ids, fault \in Faults :
        LET found == ProviderFindByPk(store, id, fault)
        IN  /\ last' = Called("getById", id, <<>>, getChallengeById(found),
                              store, 1, ThrownBy(found), FALSE)
            /\ UNCHANGED <<store, nextId, now, calls, deleted>>

UpdateChallenge ==
    \E id \in Ids, updateData \in UpdateInputs, fault1, fault2 \in Faults :
        LET found == ProviderFindByPk(store, id, fault1)
            step  == updateFind(found)
            w     == updateWrite(store, step.instance[1], updateData, fault2)
        IN  IF step.done
            THEN /\ fault2 = NoFault
                 /\ last' = Called("update", id, updateData, step.out,
                                   store, 1, ThrownBy(found), FALSE)
                 /\ UNCHANGED <<store, nextId, now, calls, deleted>>
            ELSE /\ store' = w.store
                 /\ last' = Called("update", id, updateData, updateReturn(w.resp),
                                   store, 2, ThrownBy(w.resp), w.hit)
                 /\ UNCHANGED <<nextId, now, calls, deleted>>

DeleteChallenge ==
    \E id \in Ids, fault1, fault2 \in Faults :
        LET found == ProviderFindByPk(store, id, fault1)
            step  == deleteFind(found)
            w     == deleteWrite(store, step.instance[1], fault2)
            out   == deleteReturn(id, w.resp)
        IN  IF step.done
            THEN /\ fault2 = NoFault
                 /\ last' = Called("delete", id, <<>>, step.out,
                                   store, 1, ThrownBy(found), FALSE)
                 /\ UNCHANGED <<store, nextId, now, calls, deleted>>
            ELSE /\ store' = w.store
                 /\ deleted' = IF out.ok THEN deleted \cup {id} ELSE deleted
                 /\ last' = Called("delete", id, <<>>, out,
                                   store, 2, ThrownBy(w.resp), w.hit)
                 /\ UNCHANGED <<nextId, now, calls>>

SearchChallenges ==
    \E searchTerm \in SearchInputs :
        IF searchSkips(searchTerm)
        THEN /\ last' = Called("search", 0, searchTerm, Return(<<>>),
                               store, 0, <<>>, FALSE)
             /\ UNCHANGED <<store, nextId, now, calls, deleted>>
        ELSE \E found \in ProviderFindAll(store, searchWhere(searchTerm)) :
             /\ last' = Called("search", 0, searchTerm, searchChallenges(found),
                               store, 1, ThrownBy(found), FALSE)
             /\ UNCHANGED <<store, nextId, now, calls, deleted>>

GetChallengesByStatus ==
    \E status \in StatusInputs :
        IF byStatusRefuses(status)
        THEN /\ last' = Called("byStatus", 0, status,
                               byStatusCatch(NewError(MsgEmptyStatus)),
                               store, 0, <<>>, FALSE)
             /\ UNCHANGED <<store, nextId, now, calls, deleted>>
        ELSE \E found \in ProviderFindAll(store, WhereEq([k \in {"status"} |-> status])) :
             /\ last' = Called("byStatus", 0, status, getChallengesByStatus(found),
                               store, 1, ThrownBy(found), FALSE)
             /\ UNCHANGED <<store, nextId, now, calls, deleted>>

Next ==
    \/ CreateChallenge
    \/ GetAllChallenges
    \/ GetChallengeById
    \/ UpdateChallenge
    \/ DeleteChallenge
    \/ SearchChallenges
    \/ GetChallengesByStatus

Spec == Init /\ [][Next]_vars

----------------------------------------------------------------------------
(* SpecConc: updateChallenge and deleteChallenge of concurrent callers,    *)
(* each split at its awaits.  Between a call's findByPk and its write the  *)
(* other caller's steps may run.                                           *)

\* The inputs of the concurrent callers: the rows are created without
\* trouble, the racing calls may meet a provider that throws.
ConcCreateInputs == {c \in CreateInputs : c.status = Pending}

ConcUpdateInputs == {u \in UpdateInputs : "id" \notin DOMAIN u}

ConcFaults == {NoFault, <<"connect ECONNREFUSED">>}

\* createChallenge, whose single await leaves no room for another step.
ConcCreate ==
    \E challengeData \in ConcCreateInputs :
        LET p == ProviderCreate(store, nextId, now, challengeData, NoFault)
        IN  /\ nextId <= MaxId
            /\ store' = p.store
            /\ nextId' = nextId + 1
            /\ now' = now + 1
            /\ last' = Called("create", 0, challengeData, createChallenge(p.resp),
                              store, 1, <<>>, FALSE)
            /\ UNCHANGED <<calls, deleted>>

\* updateChallenge up to the end of `await Challenge.findByPk(id)`.
UpdateBegin(p) ==
    \E id \in Ids, updateData \in ConcUpdateInputs, fault \in ConcFaults :
        LET found == ProviderFindByPk(store, id, fault)
            step  == updateFind(found)
        IN  /\ calls[p].pc = "idle"
            /\ IF step.done
               THEN /\ last' = Called("update", id, updateData, step.out,
                                      store, 1, ThrownBy(found), FALSE)
                    /\ UNCHANGED calls
               ELSE /\ calls' = [calls EXCEPT ![p] =
                                    [pc |-> "update", id |-> id, data |-> updateData,
                                     instance |-> step.instance]]
                    /\ UNCHANGED last
            /\ UNCHANGED <<store, nextId, now, deleted>>

\* updateChallenge from `await challenge.update(updateData)` to its return.
UpdateEnd(p) ==
    \E fault \in ConcFaults :
        LET c == calls[p]
            w == updateWrite(store, c.instance[1], c.data, fault)
        IN  /\ c.pc = "update"
            /\ store' = w.store
            /\ calls' = [calls EXCEPT ![p] = Idle]
            /\ last' = Called("update", c.id, c.data, updateReturn(w.resp),
                              store, 2, ThrownBy(w.resp), w.hit)
            /\ UNCHANGED <<nextId, now, deleted>>

\* deleteChallenge up to the end of `await Challenge.findByPk(id)`.
DeleteBegin(p) ==
    \E id \in Ids, fault \in ConcFaults :
        LET found == ProviderFindByPk(store, id, fault)
            step  == deleteFind(found)
        IN  /\ calls[p].pc = "idle"
            /\ IF step.done
               THEN /\ last' = Called("delete", id, <<>>, step.out,
                                      store, 1, ThrownBy(found), FALSE)
                    /\ UNCHANGED calls
               ELSE /\ calls' = [calls EXCEPT ![p] =
                                    [pc |-> "delete", id |-> id, data |-> <<>>,
                                     instance |-> step.instance]]
                    /\ UNCHANGED last
            /\ UNCHANGED <<store, nextId, now, deleted>>

\* deleteChallenge from `await challenge.destroy()` to its return.
DeleteEnd(p) ==
    \E fault \in ConcFaults :
        LET c   == calls[p]
            w   == deleteWrite(store, c.instance[1], fault)
            out == deleteReturn(c.id, w.resp)
        IN  /\ c.pc = "delete"
            /\ store' = w.store
            /\ calls' = [calls EXCEPT ![p] = Idle]
            /\ deleted' = IF out.ok THEN deleted \cup {c.id} ELSE deleted
            /\ last' = Called("delete", c.id, <<>>, out,
                              store, 2, ThrownBy(w.resp), w.hit)
            /\ UNCHANGED <<nextId, now>>

NextConc ==
    \/ ConcCreate
    \/ \E p \in Procs : UpdateBegin(p)
    \/ \E p \in Procs : UpdateEnd(p)
    \/ \E p \in Procs : DeleteBegin(p)
    \/ \E p \in Procs : DeleteEnd(p)

SpecConc == Init /\ [][NextConc]_vars

----------------------------------------------------------------------------
(* The claims. *)

\* The NotFound message of an operation's own existence check.
NotFoundOf(op) ==
    CASE op = "getById" -> MsgNotFoundGet
      [] op = "update"  -> MsgNotFoundUpdate
      [] op = "delete"  -> MsgNotFoundDelete
      [] OTHER          -> <<"(none)">>

\* The message prefix of an operation's provider failure.
PrefixOf(op) ==
    CASE op = "create"   -> PrefixCreate
      [] op = "getAll"   -> PrefixList
      [] op = "getById"  -> PrefixGet
      [] op = "update"   -> PrefixUpdate
      [] op = "delete"   -> PrefixDelete
      [] op = "search"   -> PrefixSearch
      [] op = "byStatus" -> PrefixListByStatus
      [] OTHER           -> "(none)"

\* What a caller reads off a thrown error: its message.
IsNotFound(op, e)        == e.message = NotFoundOf(op)
IsProviderFailure(op, e) == e.message # <<>> /\ Head(e.message) = PrefixOf(op)

\* A returned listing is exactly the rows of a set, newest first.
Lists(val, rows) ==
    /\ SeqToSet(val) = rows
    /\ Len(val) = Cardinality(rows)
    /\ IsNewestFirst(val)

AbsentBefore == RowWithId(last.pre, last.id) = {}

C2_Original ==
    last.op = "byStatus" =>
        /\ last.arg = Empty =>
              /\ ~last.out.ok
              /\ last.queries = 0
              /\ ~IsProviderFailure("byStatus", last.out.err)
        /\ (Truthy(last.arg) /\ last.thrown = <<>>) =>
              /\ last.out.ok
              /\ Lists(last.out.val, {r \in store : r.status = last.arg})

\* C3 as stated: an updateChallenge call, whatever its updateData, leaves the
\* id and the created_at of every row as they were.
C3_Original ==
    last.op = "update" =>
        /\ {r.id : r \in store} = {r.id : r \in last.pre}
        /\ \A r \in store : \A q \in last.pre :
              r.id = q.id => r.created_at = q.created_at

\* The record getChallengeById(id) returns from the table as it stands.
GetNow(id) == getChallengeById(ProviderFindByPk(store, id, NoFault))

RowBefore == CHOOSE r \in RowWithId(last.pre, last.id) : TRUE

OthersUntouched ==
    {r \in store : r.id # last.id} = {r \in last.pre : r.id # last.id}

IsListing == last.op \in {"getAll", "search", "byStatus"}

MatchProvided(filters) ==
    {r \in store :
        \A k \in {"status", "community_member_id", "is_weekly"} :
            filters[k] # Undefined => r[k] = filters[k]}

\* C6 as stated: getAllChallenges returns exactly the rows that match every
\* recognized key the caller provided, whatever its value (an identifier 0
\* and an empty status included), newest first.
C6_Original ==
    (last.op = "getAll" /\ last.out.ok) =>
        Lists(last.out.val, MatchProvided(last.arg))

\* C7: getAllChallenges restricts by is_weekly exactly when the caller gives
\* the key a value: a given value, false included, keeps only the rows of
\* that value, and with the key left out (and no other filter) every row comes
\* back.
C7_IsWeeklyFilter ==
    (last.op = "getAll" /\ last.out.ok) =>
        /\ last.arg.is_weekly # Undefined =>
              \A i \in DOMAIN last.out.val :
                  last.out.val[i].is_weekly = last.arg.is_weekly
        /\ (last.arg.status = Undefined /\ last.arg.community_member_id = Undefined) =>
              Lists(last.out.val,
                    {r \in store : last.arg.is_weekly # Undefined =>
                                      r.is_weekly = last.arg.is_weekly})

C7_Witness ==
    /\ last.op = "getAll"
    /\ last.out.ok
    /\ last.arg.is_weekly = JsFalse
    /\ last.arg.status = Undefined
    /\ Len(last.out.val) = 1
    /\ Cardinality(store) = 2

\* The terms the claim has searchChallenges answer with [] unasked: anything
\* that is not a string, and a string of blanks only (the empty one too).
IsBlankTerm(term) ==
    \/ term[1] # "string"
    \/ \A i \in DOMAIN Chars(term) : IsBlank(Chars(term)[i])

\* s contains t as a substring.
Contains(s, t) ==
    \E i \in 1..(Len(s) - Len(t) + 1) : SubSeq(s, i, i + Len(t) - 1) = t

HasText(v, t) == v[1] = "string" /\ Contains(Chars(v), t)

LikeText(v, t) == v[1] = "string" /\ Like(Chars(v), <<"%">> \o t \o <<"%">>)

\* C8 as stated: searchChallenges answers a blank or non-string term with []
\* and no query; for any other term it queries the provider and returns the
\* rows whose title or description contains the term, newest first.
C8_Original ==
    last.op = "search" =>
        IF IsBlankTerm(last.arg)
        THEN last.out = Return(<<>>) /\ last.queries = 0
        ELSE /\ last.queries = 1
             /\ last.out.ok =>
                   Lists(last.out.val,
                         {r \in store : \/ HasText(r.title, Chars(last.arg))
                                        \/ HasText(r.description, Chars(last.arg))})

\* C8 amended: the same, the rows returned being those whose title or
\* description matches the LIKE pattern %term%, in which a % or _ of the term
\* is a wildcard.
C8_Search ==
    last.op = "search" =>
        IF IsBlankTerm(last.arg)
        THEN last.out = Return(<<>>) /\ last.queries = 0
        ELSE /\ last.queries = 1
             /\ last.out.ok =>
                   Lists(last.out.val,
                         {r \in store : \/ LikeText(r.title, Chars(last.arg))
                                        \/ LikeText(r.description, Chars(last.arg))})

C8_Witness ==
    /\ last.op = "search"
    /\ last.arg = Str(<<"b">>)
    /\ last.out.ok
    /\ Len(last.out.val) = 1
    /\ Cardinality(store) = 2

\* C9 as stated: whatever the provider throws reaches the caller as a new
\* error with the operation's own prefix, never as the provider's object; so
\* a NotFound seen by the caller means the row was absent.
C9_Original ==
    /\ last.thrown # <<>> =>
          /\ ~last.out.ok
          /\ last.out.err.origin = "layer"
          /\ last.out.err = Wrap(PrefixOf(last.op), last.thrown[1])
    /\ (/\ last.op \in {"getById", "update", "delete"}
        /\ ~last.out.ok
        /\ IsNotFound(last.op, last.out.err)) => AbsentBefore

\* C10 as stated: under every interleaving, an updateChallenge or
\* deleteChallenge call that returns success wrote to a row that existed at
\* the moment of its write, and a successful update leaves the row in the
\* table with the values supplied.
C10_Original ==
    /\ (last.op \in {"update", "delete"} /\ last.out.ok) => last.hit
    /\ (last.op = "update" /\ last.out.ok) =>
          \E r \in RowWithId(store, last.id) :
              \A f \in DOMAIN last.arg : r[f] = last.arg[f]

====
